---- MODULE Spec2Model ----
(* A model of the mythx-models domain layer:                                *)
(*   mythx_models/response/base.py        BaseResponse                      *)
(*   mythx_models/response/auth_login.py  AuthLoginResponse                 *)
(*   mythx_models/request/analysis_input.py AnalysisInputRequest            *)
(* Python values are modelled as tagged records, JSON text as a sequence of *)
(* lexical tokens, and Python str values used in URL building as sequences  *)
(* of one-character strings.                                                *)
EXTENDS Integers, Sequences, FiniteSets, TLC

VARIABLES schema, heap, log, last, request, reqLast

vars == <<schema, heap, log, last, request, reqLast>>

(* ------------------------------------------------------------------ *)
(* Bounds                                                             *)
(* ------------------------------------------------------------------ *)
MaxInstances == 2
MaxLog == 3
MaxUuidLen == 3

(* ------------------------------------------------------------------ *)
(* Python / JSON values                                               *)
(* ------------------------------------------------------------------ *)
EmptyFields == [k \in {} |-> 0]

Str(s) == [kind |-> "string", s |-> s, fields |-> EmptyFields]

Null == [kind |-> "null", s |-> "", fields |-> EmptyFields]

Obj(f) == [kind |-> "object", s |-> "", fields |-> f]

AccessValues == {Str("a1"), Null}

RefreshValues == {Str("r1"), Null}

KeyOrder == <<"jwtTokens", "access", "refresh", "extra">>

(* The objects met under the key jwtTokens: every choice of members   *)
(* access and refresh, present or absent, a string or null.           *)
InnerFields ==
    {EmptyFields}
        \cup {("access" :> a) : a \in AccessValues}
        \cup {("refresh" :> r) : r \in RefreshValues}
        \cup {("access" :> a) @@ ("refresh" :> r) : a \in AccessValues, r \in RefreshValues}

Tokens == [access |-> Str("a1"), refresh |-> Str("r1")]

InnerValues ==
    {Obj(f) : f \in InnerFields}
        \cup {Obj(Tokens @@ ("extra" :> Str("a1"))), Str("a1"), Null}

(* The values handed to validate and from_dict *)
Candidates ==
    {Obj("jwtTokens" :> v) : v \in InnerValues}
        \cup {Obj(EmptyFields), Obj("access" :> Str("a1")),
              Obj(("jwtTokens" :> Obj(Tokens)) @@ ("extra" :> Null)),
              Str("a1"), Null}

(* ------------------------------------------------------------------ *)
(* JSON Schema documents and jsonschema.validate                      *)
(* ------------------------------------------------------------------ *)
Classes == {"BaseResponse", "AuthLoginResponse"}

None == [type |-> "None", required |-> <<>>, properties |-> EmptyFields]

StringSchema == [type |-> "string", required |-> <<>>, properties |-> EmptyFields]

(* schema/auth.json: an object holding a required object jwtTokens    *)
(* whose required members access and refresh are strings.             *)
AuthSchema ==
    [type |-> "object",
     required |-> <<"jwtTokens">>,
     properties |->
        [jwtTokens |->
            [type |-> "object",
             required |-> <<"access", "refresh">>,
             properties |-> [access |-> StringSchema, refresh |-> StringSchema]]]]

NoError == [exc |-> "none", path |-> <<>>, validator |-> "", key |-> ""]

SchemaError(path, validator, key) ==
    [exc |-> "ValidationError", path |-> path, validator |-> validator, key |-> key]

RECURSIVE BestMatch(_, _, _)
(* The error jsonschema.validate raises for instance under sch (the   *)
(* shallowest violation, keywords in schema order), or NoError.       *)
BestMatch(instance, sch, path) ==
    IF instance.kind # sch.type
    THEN SchemaError(path, "type", sch.type)
    ELSE LET present == DOMAIN instance.fields
             missing == {i \in 1..Len(sch.required) : sch.required[i] \notin present}
             checked == {i \in 1..Len(KeyOrder) :
                            /\ KeyOrder[i] \in present
                            /\ KeyOrder[i] \in DOMAIN sch.properties}
             sub(i) == BestMatch(instance.fields[KeyOrder[i]],
                                 sch.properties[KeyOrder[i]],
                                 Append(path, KeyOrder[i]))
             failing == {i \in checked : sub(i) # NoError}
         IN  IF missing # {}
             THEN SchemaError(path, "required",
                              sch.required[CHOOSE i \in missing : \A j \in missing : i <= j])
             ELSE IF failing # {}
                  THEN sub(CHOOSE i \in failing : \A j \in failing : i <= j)
                  ELSE NoError

jsonschema_validate(instance, sch) == BestMatch(instance, sch, <<>>)

(* ------------------------------------------------------------------ *)
(* JSON text: json.dumps and json.loads                               *)
(* ------------------------------------------------------------------ *)
Tok(t, s) == [t |-> t, s |-> s]

LBrace == Tok("{", "")

RBrace == Tok("}", "")

Colon == Tok(":", "")

Comma == Tok(",", "")

NullTok == Tok("null", "")

StrTok(s) == Tok("string", s)

RECURSIVE json_dumps(_)
RECURSIVE DumpMembers(_, _)
(* The members of object v whose keys are KeyOrder[i..], comma-joined *)
DumpMembers(v, i) ==
    IF i > Len(KeyOrder) THEN <<>>
    ELSE IF KeyOrder[i] \notin DOMAIN v.fields THEN DumpMembers(v, i + 1)
    ELSE LET rest == DumpMembers(v, i + 1)
             this == <<StrTok(KeyOrder[i]), Colon>> \o json_dumps(v.fields[KeyOrder[i]])
         IN  IF rest = <<>> THEN this ELSE this \o <<Comma>> \o rest

json_dumps(v) ==
    CASE v.kind = "string" -> <<StrTok(v.s)>>
      [] v.kind = "null" -> <<NullTok>>
      [] v.kind = "object" -> <<LBrace>> \o DumpMembers(v, 1) \o <<RBrace>>

ParseFail == [ok |-> FALSE, val |-> Null, pos |-> 0]

ParseOk(v, p) == [ok |-> TRUE, val |-> v, pos |-> p]

RECURSIVE ParseValue(_, _)
RECURSIVE ParseMembers(_, _, _)
(* After "{" or ",": a member list continuing at pos, acc the         *)
(* members read so far (a repeated key keeps its last value).         *)
ParseMembers(toks, pos, acc) ==
    IF pos + 1 > Len(toks) \/ toks[pos].t # "string" \/ toks[pos + 1] # Colon
    THEN ParseFail
    ELSE LET r == ParseValue(toks, pos + 2)
         IN  IF ~r.ok THEN ParseFail
             ELSE LET acc2 == (toks[pos].s :> r.val) @@ acc
                  IN  IF r.pos > Len(toks) THEN ParseFail
                      ELSE IF toks[r.pos] = RBrace THEN ParseOk(Obj(acc2), r.pos + 1)
                      ELSE IF toks[r.pos] = Comma THEN ParseMembers(toks, r.pos + 1, acc2)
                      ELSE ParseFail

ParseValue(toks, pos) ==
    IF pos > Len(toks) THEN ParseFail
    ELSE CASE toks[pos].t = "string" -> ParseOk(Str(toks[pos].s), pos + 1)
           [] toks[pos].t = "null" -> ParseOk(Null, pos + 1)
           [] toks[pos].t = "{" ->
                IF pos + 1 <= Len(toks) /\ toks[pos + 1] = RBrace
                THEN ParseOk(Obj(EmptyFields), pos + 2)
                ELSE ParseMembers(toks, pos + 1, EmptyFields)
           [] OTHER -> ParseFail

(* json.loads: the document must be one value and nothing after it    *)
json_loads(toks) ==
    LET r == ParseValue(toks, 1)
    IN  IF r.ok /\ r.pos = Len(toks) + 1
        THEN [exc |-> "none", val |-> r.val]
        ELSE [exc |-> "JSONDecodeError", val |-> Null]

WellFormed == {json_dumps(c) : c \in Candidates}

FullDoc == json_dumps(Obj("jwtTokens" :> Obj(Tokens)))

Malformed ==
    {SubSeq(FullDoc, 1, n) : n \in {0, 1, 4, Len(FullDoc) - 1}}
        \cup {FullDoc \o <<RBrace>>, <<Colon>>, <<LBrace, StrTok("a1"), RBrace>>,
              <<LBrace, StrTok("access"), Colon, NullTok, Comma, RBrace>>}

Duplicated ==
    {<<LBrace, StrTok("jwtTokens"), Colon, NullTok, Comma>> \o Tail(FullDoc)}

Texts == WellFormed \cup Malformed \cup Duplicated

(* ------------------------------------------------------------------ *)
(* BaseResponse and AuthLoginResponse                                 *)
(* ------------------------------------------------------------------ *)
Slots == 1..MaxInstances

NoInstance == [live |-> FALSE, access_token |-> Null, refresh_token |-> Null]

Free == {i \in Slots : ~heap[i].live}

(* The slot a newly constructed instance takes; 0 when none is left   *)
NewSlot == IF Free = {} THEN 0 ELSE CHOOSE i \in Free : \A j \in Free : i <= j

(* AuthLoginResponse.__init__ *)
init(access_token, refresh_token) ==
    [live |-> TRUE, access_token |-> access_token, refresh_token |-> refresh_token]

Warning(cls) == [level |-> "WARNING", msg |-> "Cannot validate {} without a schema", name |-> cls]

(* validate with the schema violation caught and dropped *)
validate_swallow(cls, candidate) ==
    [exc |-> "none", cause |-> NoError,
     logs |-> IF schema[cls] = None THEN <<Warning(cls)>> ELSE <<>>,
     candidate |-> candidate]

(* validate returning silently when the class has no schema *)
validate_nolog(cls, candidate) ==
    IF schema[cls] = None
    THEN [exc |-> "none", cause |-> NoError, logs |-> <<>>, candidate |-> candidate]
    ELSE LET e == jsonschema_validate(candidate, schema[cls])
         IN  [exc |-> IF e.exc = "ValidationError" THEN "ResponseValidationError" ELSE "none",
              cause |-> e, logs |-> <<>>, candidate |-> candidate]

(* BaseResponse.validate: the outcome, the records it logs and the    *)
(* candidate as the caller finds it afterwards.                       *)
validate(cls, candidate) ==
    IF schema[cls] = None
    THEN [exc |-> "none", cause |-> NoError, logs |-> <<Warning(cls)>>,
          candidate |-> candidate]
    ELSE LET e == jsonschema_validate(candidate, schema[cls])
         IN  IF e.exc = "ValidationError"
             THEN [exc |-> "ResponseValidationError", cause |-> e, logs |-> <<>>,
                   candidate |-> candidate]
             ELSE [exc |-> "none", cause |-> NoError, logs |-> <<>>,
                   candidate |-> candidate]

(* v[k] for a Python value v *)
Subscript(v, k) ==
    IF v.kind # "object" THEN [exc |-> "TypeError", val |-> Null]
    ELSE IF k \notin DOMAIN v.fields THEN [exc |-> "KeyError", val |-> Null]
    ELSE [exc |-> "none", val |-> v.fields[k]]

Raise(exc, cause, calls, logs, d) ==
    [exc |-> exc, cause |-> cause, inst |-> NoInstance, calls |-> calls, logs |-> logs,
     candidate |-> d]

(* d.get(k): None for a missing key *)
Get(v, k) ==
    IF v.kind # "object" THEN [exc |-> "TypeError", val |-> Null]
    ELSE IF k \notin DOMAIN v.fields THEN [exc |-> "none", val |-> Null]
    ELSE [exc |-> "none", val |-> v.fields[k]]

(* from_dict building the instance whatever validate found, with      *)
(* dict.get in place of subscripts                                    *)
from_dict_lenient(cls, d) ==
    LET v == validate(cls, d)
        j == Get(d, "jwtTokens")
        a == Get(j.val, "access")
        r == Get(j.val, "refresh")
    IN  IF j.exc # "none" \/ a.exc # "none"
        THEN Raise(v.exc, v.cause, <<"validate">>, v.logs, d)
        ELSE [exc |-> "none", cause |-> NoError, inst |-> init(a.val, r.val),
              calls |-> <<"validate", "__init__">>, logs |-> v.logs, candidate |-> d]

(* from_dict reading the keys of d before it validates d *)
from_dict_extract_first(cls, d) ==
    LET j == Subscript(d, "jwtTokens")
        a == Subscript(j.val, "access")
        r == Subscript(j.val, "refresh")
        v == validate(cls, d)
    IN  IF j.exc # "none" THEN Raise(j.exc, NoError, <<>>, <<>>, d)
        ELSE IF a.exc # "none" THEN Raise(a.exc, NoError, <<>>, <<>>, d)
        ELSE IF r.exc # "none" THEN Raise(r.exc, NoError, <<>>, <<>>, d)
        ELSE IF v.exc # "none" THEN Raise(v.exc, v.cause, <<"validate">>, v.logs, d)
        ELSE [exc |-> "none", cause |-> NoError, inst |-> init(a.val, r.val),
              calls |-> <<"validate", "__init__">>, logs |-> v.logs, candidate |-> d]

(* from_dict with the two tokens exchanged *)
from_dict_swapped(cls, d) ==
    LET v == validate(cls, d)
    IN  IF v.exc # "none" THEN Raise(v.exc, v.cause, <<"validate">>, v.logs, d)
        ELSE [exc |-> "none", cause |-> NoError,
              inst |-> init(d.fields["jwtTokens"].fields["refresh"],
                            d.fields["jwtTokens"].fields["access"]),
              calls |-> <<"validate", "__init__">>, logs |-> v.logs, candidate |-> d]

(* AuthLoginResponse.from_dict *)
from_dict(cls, d) ==
    LET v == validate(cls, d)
        j == Subscript(v.candidate, "jwtTokens")
        a == Subscript(j.val, "access")
        r == Subscript(j.val, "refresh")
    IN  IF v.exc # "none" THEN Raise(v.exc, v.cause, <<"validate">>, v.logs, v.candidate)
        ELSE IF j.exc # "none" THEN Raise(j.exc, NoError, <<"validate">>, v.logs, v.candidate)
        ELSE IF a.exc # "none" THEN Raise(a.exc, NoError, <<"validate">>, v.logs, v.candidate)
        ELSE IF r.exc # "none" THEN Raise(r.exc, NoError, <<"validate">>, v.logs, v.candidate)
        ELSE [exc |-> "none", cause |-> NoError, inst |-> init(a.val, r.val),
              calls |-> <<"validate", "__init__">>, logs |-> v.logs,
              candidate |-> v.candidate]

(* from_json treating unparsable text as an empty object *)
from_json_recover(cls, json_str) ==
    LET parsed == json_loads(json_str)
        val == IF parsed.exc # "none" THEN Obj(EmptyFields) ELSE parsed.val
        r == from_dict(cls, val)
    IN  [exc |-> r.exc, cause |-> r.cause, inst |-> r.inst,
         calls |-> <<"json.loads", "from_dict">> \o r.calls, logs |-> r.logs,
         parsed |-> val]

(* BaseResponse.from_json *)
from_json(cls, json_str) ==
    LET parsed == json_loads(json_str)
        r == from_dict(cls, parsed.val)
    IN  IF parsed.exc # "none"
        THEN [exc |-> parsed.exc, cause |-> NoError, inst |-> NoInstance,
              calls |-> <<"json.loads">>, logs |-> <<>>, parsed |-> Null]
        ELSE [exc |-> r.exc, cause |-> r.cause, inst |-> r.inst,
              calls |-> <<"json.loads", "from_dict">> \o r.calls, logs |-> r.logs,
              parsed |-> parsed.val]

(* to_dict returning the dict without validating it *)
to_dict_novalidate(cls, self) ==
    [exc |-> "none", cause |-> NoError, returned |-> TRUE,
     ret |-> Obj("jwtTokens" :> Obj([access |-> self.access_token,
                                     refresh |-> self.refresh_token])),
     calls |-> <<>>, logs |-> <<>>, self |-> self]

(* to_dict clearing the tokens of an instance it finds invalid *)
to_dict_reset(cls, self) ==
    LET d == Obj("jwtTokens" :> Obj([access |-> self.access_token,
                                     refresh |-> self.refresh_token]))
        v == validate(cls, d)
    IN  IF v.exc # "none"
        THEN [exc |-> v.exc, cause |-> v.cause, returned |-> FALSE, ret |-> Null,
              calls |-> <<"validate">>, logs |-> v.logs, self |-> init(Null, Null)]
        ELSE [exc |-> "none", cause |-> NoError, returned |-> TRUE, ret |-> v.candidate,
              calls |-> <<"validate">>, logs |-> v.logs, self |-> self]

(* AuthLoginResponse.to_dict *)
to_dict(cls, self) ==
    LET d == Obj("jwtTokens" :> Obj([access |-> self.access_token,
                                     refresh |-> self.refresh_token]))
        v == validate(cls, d)
    IN  IF v.exc # "none"
        THEN [exc |-> v.exc, cause |-> v.cause, returned |-> FALSE, ret |-> Null,
              calls |-> <<"validate">>, logs |-> v.logs, self |-> self]
        ELSE [exc |-> "none", cause |-> NoError, returned |-> TRUE, ret |-> v.candidate,
              calls |-> <<"validate">>, logs |-> v.logs, self |-> self]

(* to_json validating the dict a second time before dumping it *)
to_json_revalidate(cls, self) ==
    LET r == to_dict(cls, self)
        v == validate(cls, r.ret)
    IN  IF r.exc # "none"
        THEN [exc |-> r.exc, cause |-> r.cause, returned |-> FALSE, out |-> <<>>,
              calls |-> <<"to_dict">> \o r.calls, logs |-> r.logs, self |-> r.self]
        ELSE [exc |-> v.exc, cause |-> v.cause, returned |-> (v.exc = "none"),
              out |-> IF v.exc = "none" THEN json_dumps(r.ret) ELSE <<>>,
              calls |-> <<"to_dict">> \o r.calls \o <<"validate", "json.dumps">>,
              logs |-> r.logs \o v.logs, self |-> r.self]

(* BaseResponse.to_json *)
to_json(cls, self) ==
    LET r == to_dict(cls, self)
    IN  IF r.exc # "none"
        THEN [exc |-> r.exc, cause |-> r.cause, returned |-> FALSE, out |-> <<>>,
              calls |-> <<"to_dict">> \o r.calls, logs |-> r.logs, self |-> r.self]
        ELSE [exc |-> "none", cause |-> NoError, returned |-> TRUE, out |-> json_dumps(r.ret),
              calls |-> <<"to_dict">> \o r.calls \o <<"json.dumps">>, logs |-> r.logs,
              self |-> r.self]

(* ------------------------------------------------------------------ *)
(* The record of the latest call on the response classes              *)
(* ------------------------------------------------------------------ *)
NoCall ==
    [op |-> "none", cls |-> "", self |-> 0, arg |-> Null, argAfter |-> Null, text |-> <<>>,
     exc |-> "none", cause |-> NoError, returned |-> FALSE, ret |-> Null,
     inst |-> NoInstance, out |-> <<>>, calls |-> <<>>, logged |-> <<>>]

InitialSchema == [c \in Classes |-> IF c = "AuthLoginResponse" THEN AuthSchema ELSE None]

(* ------------------------------------------------------------------ *)
(* Actions: the calls a client of the response classes can make       *)
(* ------------------------------------------------------------------ *)
Construct(a, r) ==
    /\ NewSlot # 0
    /\ heap' = [heap EXCEPT ![NewSlot] = init(a, r)]
    /\ last' = [NoCall EXCEPT !.op = "__init__", !.cls = "AuthLoginResponse",
                              !.self = NewSlot, !.returned = TRUE, !.inst = init(a, r),
                              !.calls = <<"__init__">>]
    /\ UNCHANGED <<schema, log, request, reqLast>>

SetField(i, f, v) ==
    /\ heap[i].live
    /\ heap' = [heap EXCEPT ![i][f] = v]
    /\ last' = [NoCall EXCEPT !.op = "setattr", !.cls = "AuthLoginResponse", !.self = i,
                              !.returned = TRUE]
    /\ UNCHANGED <<schema, log, request, reqLast>>

(* The caller drops its last reference to instance i *)
Del(i) ==
    /\ heap[i].live
    /\ heap' = [heap EXCEPT ![i] = NoInstance]
    /\ last' = [NoCall EXCEPT !.op = "del", !.cls = "AuthLoginResponse", !.self = i]
    /\ UNCHANGED <<schema, log, request, reqLast>>

Validate(cls, c) ==
    LET r == validate(cls, c)
    IN  /\ Len(log) + Len(r.logs) <= MaxLog
        /\ log' = log \o r.logs
        /\ last' = [NoCall EXCEPT !.op = "validate", !.cls = cls, !.arg = c,
                                  !.argAfter = r.candidate, !.exc = r.exc,
                                  !.cause = r.cause, !.returned = (r.exc = "none"),
                                  !.calls = <<"validate">>, !.logged = r.logs]
        /\ UNCHANGED <<schema, heap, request, reqLast>>

FromDict(d) ==
    LET r == from_dict("AuthLoginResponse", d)
    IN  /\ Len(log) + Len(r.logs) <= MaxLog
        /\ log' = log \o r.logs
        /\ r.inst.live => NewSlot # 0
        /\ heap' = IF r.inst.live THEN [heap EXCEPT ![NewSlot] = r.inst] ELSE heap
        /\ last' = [NoCall EXCEPT !.op = "from_dict", !.cls = "AuthLoginResponse",
                                  !.self = IF r.inst.live THEN NewSlot ELSE 0, !.arg = d, !.argAfter = r.candidate,
                                  !.exc = r.exc, !.cause = r.cause,
                                  !.returned = (r.exc = "none"), !.inst = r.inst,
                                  !.calls = <<"from_dict">> \o r.calls, !.logged = r.logs]
        /\ UNCHANGED <<schema, request, reqLast>>

FromJson(s) ==
    LET r == from_json("AuthLoginResponse", s)
    IN  /\ Len(log) + Len(r.logs) <= MaxLog
        /\ log' = log \o r.logs
        /\ r.inst.live => NewSlot # 0
        /\ heap' = IF r.inst.live THEN [heap EXCEPT ![NewSlot] = r.inst] ELSE heap
        /\ last' = [NoCall EXCEPT !.op = "from_json", !.cls = "AuthLoginResponse",
                                  !.self = IF r.inst.live THEN NewSlot ELSE 0, !.text = s, !.arg = r.parsed,
                                  !.exc = r.exc, !.cause = r.cause,
                                  !.returned = (r.exc = "none"), !.inst = r.inst,
                                  !.calls = <<"from_json">> \o r.calls, !.logged = r.logs]
        /\ UNCHANGED <<schema, request, reqLast>>

ToDict(i) ==
    LET r == to_dict("AuthLoginResponse", heap[i])
    IN  /\ heap[i].live
        /\ Len(log) + Len(r.logs) <= MaxLog
        /\ log' = log \o r.logs
        /\ heap' = [heap EXCEPT ![i] = r.self]
        /\ last' = [NoCall EXCEPT !.op = "to_dict", !.cls = "AuthLoginResponse",
                                  !.self = i, !.inst = heap[i], !.exc = r.exc,
                                  !.cause = r.cause, !.returned = r.returned,
                                  !.ret = r.ret, !.calls = <<"to_dict">> \o r.calls,
                                  !.logged = r.logs]
        /\ UNCHANGED <<schema, request, reqLast>>

ToJson(i) ==
    LET r == to_json("AuthLoginResponse", heap[i])
    IN  /\ heap[i].live
        /\ Len(log) + Len(r.logs) <= MaxLog
        /\ log' = log \o r.logs
        /\ heap' = [heap EXCEPT ![i] = r.self]
        /\ last' = [NoCall EXCEPT !.op = "to_json", !.cls = "AuthLoginResponse",
                                  !.self = i, !.inst = heap[i], !.exc = r.exc,
                                  !.cause = r.cause, !.returned = r.returned,
                                  !.out = r.out, !.calls = <<"to_json">> \o r.calls,
                                  !.logged = r.logs]
        /\ UNCHANGED <<schema, request, reqLast>>

(* ------------------------------------------------------------------ *)
(* AnalysisInputRequest                                               *)
(* ------------------------------------------------------------------ *)
Chars == {"a", "b", "1", "-"}

RECURSIVE StringsUpTo(_)
StringsUpTo(n) ==
    IF n = 0 THEN {<<>>}
    ELSE LET shorter == StringsUpTo(n - 1)
         IN  shorter \cup {Append(s, c) : s \in {t \in shorter : Len(t) = n - 1}, c \in Chars}

Uuids == StringsUpTo(MaxUuidLen) \cup {<<"a", "b", "c", "-", "1", "2", "3">>}

NoRequest == [live |-> FALSE, uuid |-> <<>>]

NoRead == [op |-> "none", value |-> <<>>]

EndpointTemplate ==
    <<"v", "1", "/", "a", "n", "a", "l", "y", "s", "e", "s", "/", "{", "}",
      "/", "i", "n", "p", "u", "t">>

RECURSIVE format(_, _)
(* str.format with one positional argument: each "{}" of the template *)
(* is replaced by the argument, everything else is copied.            *)
format(template, arg) ==
    IF template = <<>> THEN <<>>
    ELSE IF Len(template) >= 2 /\ template[1] = "{" /\ template[2] = "}"
         THEN arg \o format(SubSeq(template, 3, Len(template)), arg)
         ELSE <<template[1]>> \o format(Tail(template), arg)

StatusTemplate ==
    <<"v", "1", "/", "a", "n", "a", "l", "y", "s", "e", "s", "/", "{", "}">>

(* endpoint as the parent class builds it, without the input suffix *)
endpoint_status(self) == format(StatusTemplate, self.uuid)

(* AnalysisInputRequest.endpoint *)
endpoint(self) == format(EndpointTemplate, self.uuid)

NewRequest(u) ==
    /\ request' = [live |-> TRUE, uuid |-> u]
    /\ reqLast' = [op |-> "__init__", value |-> <<>>]
    /\ UNCHANGED <<schema, heap, log, last>>

ReadEndpoint ==
    /\ request.live
    /\ reqLast' = [op |-> "endpoint", value |-> endpoint(request)]
    /\ UNCHANGED <<schema, heap, log, last, request>>

(* ------------------------------------------------------------------ *)
(* Specifications                                                     *)
(* ------------------------------------------------------------------ *)
Init ==
    /\ schema = InitialSchema
    /\ heap = [i \in Slots |-> NoInstance]
    /\ log = <<>>
    /\ last = NoCall
    /\ request = NoRequest
    /\ reqLast = NoRead

Next ==
    \/ \E a \in AccessValues, r \in RefreshValues : Construct(a, r)
    \/ \E i \in Slots, v \in AccessValues : SetField(i, "access_token", v)
    \/ \E i \in Slots, v \in RefreshValues : SetField(i, "refresh_token", v)
    \/ \E i \in Slots : Del(i)
    \/ \E c \in Candidates : Validate("AuthLoginResponse", c)
    \/ \E d \in Candidates : FromDict(d)
    \/ \E s \in Texts : FromJson(s)
    \/ \E i \in Slots : ToDict(i)
    \/ \E i \in Slots : ToJson(i)

(* The life cycle of AuthLoginResponse instances *)
Spec == Init /\ [][Next]_vars

ValidateNext == \E cls \in Classes, c \in Candidates : Validate(cls, c)

(* validate on a class with and without a schema, and the log *)
ValidateSpec == Init /\ [][ValidateNext]_vars

RequestNext ==
    \/ \E u \in Uuids : NewRequest(u)
    \/ ReadEndpoint

(* AnalysisInputRequest instances and reads of their endpoint *)
RequestSpec == Init /\ [][RequestNext]_vars

(* ------------------------------------------------------------------ *)
(* Properties                                                         *)
(* ------------------------------------------------------------------ *)
Range(seq) == {seq[i] : i \in 1..Len(seq)}

Count(seq, x) == Cardinality({i \in 1..Len(seq) : seq[i] = x})

IsString(v) == v.kind = "string"

(* d conforms to schema/auth.json, stated on the value itself *)
ConformsAuth(d) ==
    /\ d.kind = "object"
    /\ "jwtTokens" \in DOMAIN d.fields
    /\ d.fields["jwtTokens"].kind = "object"
    /\ {"access", "refresh"} \subseteq DOMAIN d.fields["jwtTokens"].fields
    /\ IsString(d.fields["jwtTokens"].fields["access"])
    /\ IsString(d.fields["jwtTokens"].fields["refresh"])

(* {"jwtTokens": {"access": a, "refresh": r}} and no other key *)
LoginDict(a, r) == Obj("jwtTokens" :> Obj(("access" :> a) @@ ("refresh" :> r)))

FieldEqual(m, n) ==
    /\ m.live /\ n.live
    /\ m.access_token = n.access_token
    /\ m.refresh_token = n.refresh_token

C2_RoundTrip ==
    [][/\ (last'.op = "from_dict" /\ ConformsAuth(last'.arg)) =>
            /\ last'.returned
            /\ last'.self \in Slots
            /\ heap'[last'.self] = last'.inst
            /\ last'.inst.live
            /\ last'.inst.access_token = last'.arg.fields["jwtTokens"].fields["access"]
            /\ last'.inst.refresh_token = last'.arg.fields["jwtTokens"].fields["refresh"]
       /\ (/\ last.op = "from_dict" /\ last.returned
           /\ last'.op = "to_dict" /\ last'.self = last.self) =>
            /\ last'.returned
            /\ last'.exc = "none"
            /\ last'.ret = LoginDict(last.inst.access_token, last.inst.refresh_token)
       /\ (/\ last.op = "to_dict" /\ last.returned
           /\ last'.op = "from_dict" /\ last'.arg = last.ret) =>
            /\ last'.returned
            /\ FieldEqual(last'.inst, last.inst)]_vars

C2_Witness ==
    /\ last.op = "from_dict"
    /\ last.returned
    /\ last.arg = LoginDict(Str("a1"), Str("r1"))
    /\ \A i \in Slots : FieldEqual(heap[i], init(Str("a1"), Str("r1")))

(* C3: from_dict never ends in a missing-key error: validate is the    *)
(* first thing it calls, and its only outcomes are a returned instance *)
(* or a ResponseValidationError.                                       *)
C3_NoMissingKeyError ==
    last.op = "from_dict" =>
        /\ last.exc # "KeyError"
        /\ Len(last.calls) >= 2 /\ last.calls[2] = "validate"
        /\ \/ last.exc = "none" /\ last.returned /\ last.inst.live
           \/ last.exc = "ResponseValidationError" /\ ~last.returned /\ ~last.inst.live

C3_Witness ==
    /\ last.op = "from_dict"
    /\ last.arg = Obj("jwtTokens" :> Obj("access" :> Str("a1")))
    /\ last.exc = "ResponseValidationError"
    /\ last.cause = SchemaError(<<"jwtTokens">>, "required", "refresh")

C5_NoSchemaWarnsOnce ==
    [][(last'.op = "validate" /\ schema[last'.cls] = None) =>
            /\ last'.returned
            /\ last'.exc = "none"
            /\ log' = Append(log, Warning(last'.cls))
            /\ log'[Len(log')].level = "WARNING"
            /\ log'[Len(log')].name = last'.cls
            /\ UNCHANGED <<schema, heap>>]_vars

C5_Witness ==
    /\ last.op = "validate"
    /\ last.cls = "BaseResponse"
    /\ last.arg = Null
    /\ last.returned
    /\ Len(log) = 2

C7_FromJsonParseThenFromDict ==
    last.op = "from_json" =>
        /\ last.text \in Malformed =>
            /\ last.exc = "JSONDecodeError"
            /\ last.exc # "ResponseValidationError"
            /\ last.calls = <<"from_json", "json.loads">>
            /\ ~last.returned
            /\ ~last.inst.live
        /\ \A c \in Candidates :
            last.text = json_dumps(c) =>
                LET r == from_dict(last.cls, c)
                IN  /\ last.exc = r.exc
                    /\ last.cause = r.cause
                    /\ last.inst = r.inst
                    /\ last.returned = r.inst.live
                    /\ last.arg = c

C7_Witness ==
    /\ last.op = "from_json"
    /\ last.text = SubSeq(FullDoc, 1, Len(FullDoc) - 1)
    /\ last.exc = "JSONDecodeError"

(* C8: reading endpoint yields "v1/analyses/" + uuid + "/input", with  *)
(* nothing before "v1", and changes no field of the request.           *)
C8_EndpointOfUuid ==
    [][reqLast'.op = "endpoint" =>
            /\ reqLast'.value =
                   <<"v", "1", "/", "a", "n", "a", "l", "y", "s", "e", "s", "/">>
                       \o request.uuid \o <<"/", "i", "n", "p", "u", "t">>
            /\ request' = request
            /\ UNCHANGED <<schema, heap, log, last>>]_vars

C8_Witness ==
    /\ reqLast.op = "endpoint"
    /\ request.uuid = <<"a", "b", "c", "-", "1", "2", "3">>
    /\ reqLast.value =
           <<"v", "1", "/", "a", "n", "a", "l", "y", "s", "e", "s", "/",
             "a", "b", "c", "-", "1", "2", "3", "/", "i", "n", "p", "u", "t">>

(* C9: to_json returns the JSON text of what to_dict returns, calls    *)
(* validate exactly once (inside to_dict), and when to_dict raises it  *)
(* raises the same error and produces no text.                         *)
C9_ToJsonDumpsToDict ==
    last.op = "to_json" =>
        LET t == to_dict(last.cls, last.inst)
        IN  /\ Count(last.calls, "validate") = 1
            /\ Count(last.calls, "to_dict") = 1
            /\ t.exc # "none" =>
                /\ last.exc = t.exc
                /\ last.cause = t.cause
                /\ ~last.returned
                /\ last.out = <<>>
            /\ t.exc = "none" =>
                /\ last.returned
                /\ last.exc = "none"
                /\ last.out = json_dumps(t.ret)
                /\ json_loads(last.out).val = t.ret

C9_Witness ==
    /\ last.op = "to_json"
    /\ last.returned
    /\ last.out = FullDoc

C9_WitnessRaises ==
    /\ last.op = "to_json"
    /\ last.exc = "ResponseValidationError"
    /\ last.out = <<>>

(* C10: frame. No call changes the class-level schema; validate and    *)
(* from_dict leave their candidate as it was; validate, to_dict and    *)
(* to_json change no instance; from_dict and from_json change no       *)
(* instance that existed before the call.                              *)
C10_Frame ==
    [][/\ schema' = InitialSchema
       /\ last'.op \in {"validate", "from_dict"} => last'.argAfter = last'.arg
       /\ last'.op \in {"validate", "to_dict", "to_json"} => heap' = heap
       /\ last'.op \in {"from_dict", "from_json"} =>
            \A i \in Slots : heap[i].live => heap'[i] = heap[i]]_vars

C10_Witness ==
    /\ last.op = "to_dict"
    /\ ~last.returned
    /\ \E i, j \in Slots :
        /\ i # j
        /\ heap[i] = init(Null, Str("r1"))
        /\ heap[j] = init(Str("a1"), Str("r1"))

====
